---- MODULE Spec2Model ----
(***************************************************************************)
(* A model of the datastore request layer (DatastoreRequest): get, save,   *)
(* delete, runQuery and the dispatcher makeReq_, with the transport and    *)
(* the store as the environment.                                           *)
(***************************************************************************)
EXTENDS Integers, Sequences, FiniteSets, TLC

\* ---------------------------------------------------------------- bounds
\* Keys in one get batch.
MaxKeys == 2
\* Rounds in which the store may defer keys of one get.
MaxRounds == 3
\* Requests that emit 'error' in one behaviour.
MaxErrors == 1
\* Entity descriptors the caller holds.
MaxEnts == 3
\* save and delete calls in one behaviour on an unbound context, each of
\* which is dispatched at once.
MaxCalls == 1
\* save and delete calls in one behaviour on a context bound to a
\* transaction, each of which is queued.
MaxQueued == 2
\* Entities the store holds for a query.
MaxTotal == 3
\* The greatest limit of a query.
MaxLimit == 2
\* The greatest offset of a query.
MaxOffset == 1
\* 'reading' events a stream's consumer causes.
MaxReadings == 2
\* The most ids one allocateIds call asks for.
MaxAlloc == 3

\* ------------------------------------------------------------- constants
MODE_NON_TRANSACTIONAL == "NON_TRANSACTIONAL"
MODE_TRANSACTIONAL == "TRANSACTIONAL"

\* The transaction id of a bound context; NoId is the unbound context.
NoId == 0
TxnId == 7

\* JavaScript values handed to continuations.
NoErr == "null"
Undefined == [t |-> "undefined", v |-> <<>>]
JsArray(s) == [t |-> "array", v |-> s]
JsObject(x) == [t |-> "object", v |-> <<x>>]

VARIABLES
    id,                 \* this.id: the transaction id of the context, or NoId
    requests_,          \* this.requests_: the pending-request queue
    requestCallbacks_,  \* this.requestCallbacks_: the completion-continuation queue
    reqs,               \* every dispatch made so far, in order, with its transport state
    calls,              \* the invocations of the caller's continuations, in order
    keyObjs,            \* the caller's key objects
    entityObjs,         \* the caller's entity descriptors, each with its key object and data
    given,              \* history: keyObjs and entityObjs as the caller built them
    ops,                \* history: the save and delete calls made, in order
    commits,            \* history: the invocations of onCommit, in order
    q,                  \* the query object given to runQuery
    stream,             \* runQuery's stream, with resultsToSend and what it has emitted
    total               \* the store: how many entities it holds for the query's kind

vars == <<id, requests_, requestCallbacks_, reqs, calls, keyObjs, entityObjs, given, ops,
          commits, q, stream, total>>

ctxVars == <<id, requests_, requestCallbacks_>>

\* The caller's objects and the history of the mutation calls.
callerVars == <<keyObjs, entityObjs, given, ops, commits, q, stream, total>>

\* The caller's objects of the mutation calls.
mutVars == <<keyObjs, entityObjs, given, ops, commits>>

\* The query, the store and the stream of runQuery.
queryVars == <<q, stream, total>>

\* ------------------------------------------------------------ sequences
RECURSIVE Concat(_)
Concat(ss) ==
    IF ss = <<>> THEN <<>> ELSE Head(ss) \o Concat(Tail(ss))

Map(f(_), s) == [i \in DOMAIN s |-> f(s[i])]

Range(s) == {s[i] : i \in DOMAIN s}

IsInjective(s) == \A i, j \in DOMAIN s : s[i] = s[j] => i = j

\* Every ordering of every subset of S.
Orderings(S) ==
    {s \in UNION {[1..n -> S] : n \in 0..Cardinality(S)} : IsInjective(s)}

\* The elements of sequence s that are in S, in the order of s.
Restrict(s, S) == SelectSeq(s, LAMBDA x : x \in S)

\* ---------------------------------------------------------------- codec
\* A key with a complete path, as dataset.key(['Company', n]) builds it.
Key(n) == [path |-> <<"Company", n>>]

\* entity.keyToKeyProto / entity.keyFromKeyProto: a key and its wire form.
keyToKeyProto(key) == [path_element |-> key.path]
keyFromKeyProto(proto) == [path |-> proto.path_element]

\* A found entity result on the wire, and entity.formatArray, which turns a
\* list of entity results into domain entities, in the list's order.
EntityResult(key) == [entity |-> [key |-> keyToKeyProto(key)]]
formatEntity(result) == [key |-> keyFromKeyProto(result.entity.key)]
formatArray(results) == Map(formatEntity, results)

\* ------------------------------------------------------------ dispatcher
\* A framing that leaves lookups as they are.
frameBody_commitOnly(method, body) ==
    IF method = "commit"
    THEN IF id # NoId
         THEN ("mode" :> MODE_TRANSACTIONAL) @@ ("transaction" :> id) @@ body
         ELSE ("mode" :> MODE_NON_TRANSACTIONAL) @@ body
    ELSE body

\* makeReq_, lines 518-531: the transaction framing of a request body.
frameBody(method, body) ==
    IF method = "commit"
    THEN IF id # NoId
         THEN ("mode" :> MODE_TRANSACTIONAL) @@ ("transaction" :> id) @@ body
         ELSE ("mode" :> MODE_NON_TRANSACTIONAL) @@ body
    ELSE IF method = "lookup" /\ id # NoId
    THEN ("read_options" :> [transaction |-> id]) @@ body
    ELSE body

\* makeReq_, lines 509-546: the dispatch as it stands when makeReq_ returns,
\* waiting for makeAuthorizedRequest_ to call onAuthorized.  cbs, decoded and
\* parent are history: the invocations of callback so far, the responses
\* decoded, and the dispatch whose completion issued this one.
makeReq_(method, body, callback, parent) ==
    [method |-> method, body |-> frameBody(method, body), callback |-> callback,
     phase |-> "auth", status |-> 0, rest |-> <<>>, buffer |-> <<>>,
     erred |-> FALSE, cbs |-> <<>>, decoded |-> <<>>, parent |-> parent]

\* pbResponse.decode for a LookupResponse: the repeated fields of the
\* buffer, each list in the buffer's order.
decodeLookup(buffer) ==
    [found |-> Map(LAMBDA f : f.val, SelectSeq(buffer, LAMBDA f : f.tag = "found")),
     deferred |-> Map(LAMBDA f : f.val,
                      SelectSeq(buffer, LAMBDA f : f.tag = "deferred"))]

\* --------------------------------------------------------------- lookup
\* A deferred continuation that drops the found list it captured.
getDeferredCallback_dropsFound(outer, entities) == entities

\* get, lines 130-141: the continuations of the enclosing get calls, run
\* from the innermost out; each prepends the found list it captured.
RECURSIVE getDeferredCallback(_, _)
getDeferredCallback(outer, entities) ==
    IF outer = <<>>
    THEN entities
    ELSE getDeferredCallback(SubSeq(outer, 1, Len(outer) - 1),
                             JsArray(outer[Len(outer)] \o entities.v))

\* get, lines 107-119: get(keys, callback) up to its lookup dispatch; keys is
\* one key or an array of keys.  The continuation holds what the closure
\* passed to makeReq_ captures: isMultipleRequest and, for a get issued for
\* deferred keys, the found lists captured by the enclosing continuations.
get(keys, isArray, outer, parent) ==
    LET isMultipleRequest == isArray
        keysArray == IF isMultipleRequest THEN keys ELSE <<keys>>
    IN  makeReq_("lookup", [key |-> Map(keyToKeyProto, keysArray)],
                 [kind |-> "get", isMultipleRequest |-> isMultipleRequest,
                  outer |-> outer],
                 parent)

\* A result that is an array whatever the shape of the call.
getResult_alwaysArray(isMultipleRequest, found) == JsArray(found)

\* A result that skips the first entity found.
getResult_skipsFirst(isMultipleRequest, found) ==
    IF isMultipleRequest
    THEN JsArray(SubSeq(found, 2, Len(found)))
    ELSE IF Len(found) > 0 THEN JsObject(found[1]) ELSE Undefined

\* get, line 146: isMultipleRequest ? found : found[0].
getResult(isMultipleRequest, found) ==
    IF isMultipleRequest
    THEN JsArray(found)
    ELSE IF Len(found) > 0 THEN JsObject(found[1]) ELSE Undefined

\* The continuation the caller gave to call op is invoked with (err, val); by
\* is the dispatch whose event led to it.
Deliver(op, err, val, by) ==
    calls' = Append(calls, [op |-> op, err |-> err, val |-> val, by |-> by])

\* A get that never asks again for deferred keys.
requestsDeferred_never(isMultipleRequest, deferred) == FALSE

\* A get that asks again for deferred keys whatever shape it was called in.
requestsDeferred_anyShape(isMultipleRequest, deferred) == Len(deferred) > 0

\* get, line 127: isMultipleRequest && resp.deferred && resp.deferred.length.
requestsDeferred(isMultipleRequest, deferred) ==
    isMultipleRequest /\ Len(deferred) > 0

\* get, lines 119-147: the continuation of the lookup dispatch i, whose
\* record after the transport event is r.
getCallback(i, r, err, resp) ==
    LET cb == r.callback
        found == formatArray(resp.found)
    IN  IF err # NoErr
        THEN /\ reqs' = [reqs EXCEPT ![i] = r]
             /\ Deliver(1, err, Undefined, i)
             /\ UNCHANGED <<ctxVars, callerVars>>
        ELSE IF requestsDeferred(cb.isMultipleRequest, resp.deferred)
        THEN /\ reqs' = Append([reqs EXCEPT ![i] = r],
                               get(Map(keyFromKeyProto, resp.deferred), TRUE,
                                   Append(cb.outer, found), i))
             /\ UNCHANGED <<ctxVars, calls, callerVars>>
        ELSE /\ reqs' = [reqs EXCEPT ![i] = r]
             /\ Deliver(1, NoErr,
                        getDeferredCallback(cb.outer,
                                            getResult(cb.isMultipleRequest, found)),
                        i)
             /\ UNCHANGED <<ctxVars, callerVars>>

\* The user calls get with an array of keys or with a single key.
Keys == {Key(n) : n \in 1..MaxKeys}

getCall ==
    /\ reqs = <<>>
    /\ \/ \E n \in 0..MaxKeys :
            reqs' = <<get([j \in 1..n |-> Key(j)], TRUE, <<>>, 0)>>
       \/ reqs' = <<get(Key(1), FALSE, <<>>, 0)>>
    /\ UNCHANGED <<ctxVars, calls, callerVars>>

\* ------------------------------------------------------------- mutation
\* A key without an identifier in its last path segment, as
\* dataset.key('Company') builds it.
IncompleteKey == [path |-> <<"Company">>]

\* entity.isKeyComplete: the last path segment has an identifier.
isKeyComplete(key) == Len(key.path) % 2 = 0

\* A value as the caller writes it, and entity.valueToProperty, its wire
\* property (of a value that already is a property too).
Raw(x) == [t |-> "raw", v |-> x]
valueToProperty(value) == [t |-> "property", v |-> value, indexed |-> "unset"]

\* entity.entityToEntityProto: the wire entity of a plain property bag.
entityToEntityProto(data) ==
    [property |-> Map(LAMBDA d : [name |-> d.name, value |-> valueToProperty(d.value)],
                      data.v)]

\* save, lines 239-248: one record of an explicit property list, as the map
\* callback leaves it; the record is the caller's object.
saveRecord(data) ==
    LET value == valueToProperty(data.value)
    IN  IF data.excludeFromIndexes \in {"true", "false"}
        THEN [name |-> data.name,
              value |-> [value EXCEPT !.indexed =
                           IF data.excludeFromIndexes = "true" THEN "false" ELSE "true"],
              excludeFromIndexes |-> "absent"]
        ELSE [data EXCEPT !.value = value]

\* save, lines 238-251: the caller's data object after save has encoded it.
saveData(data) ==
    IF data.t = "array" THEN [data EXCEPT !.v = Map(saveRecord, data.v)] ELSE data

\* save, lines 236-253: the wire entity built for one entity descriptor.
saveEnt(entityObject) ==
    ("key" :> keyToKeyProto(keyObjs[entityObject.key]))
      @@ (IF entityObject.data.t = "array"
          THEN [property |-> saveData(entityObject.data).v]
          ELSE entityToEntityProto(entityObject.data))

\* A recorded position that is the position in the batch, not in the input.
insertIndex_batchPosition(ents, index) ==
    Cardinality({j \in 1..index : ~isKeyComplete(keyObjs[ents[j].key])})

\* save, line 258: the input position recorded for an entity with an
\* incomplete key (positions count from 1 here).
insertIndex(ents, index) == index

\* save, lines 232-267: the mutation batches and the recorded positions for
\* the entity descriptors ents.
RECURSIVE saveReduce(_, _, _)
saveReduce(ents, index, acc) ==
    IF index > Len(ents)
    THEN acc
    ELSE saveReduce(ents, index + 1,
            IF isKeyComplete(keyObjs[ents[index].key])
            THEN [acc EXCEPT !.upsert = Append(@, saveEnt(ents[index]))]
            ELSE [acc EXCEPT !.insertIndexes = Append(@, insertIndex(ents, index)),
                             !.insert_auto_id = Append(@, saveEnt(ents[index]))])

\* The caller may make another call on this context: it makes its calls one
\* after the other, the next one once the response to the last has ended.
MayCall ==
    /\ Len(ops) < (IF id # NoId THEN MaxQueued ELSE MaxCalls)
    /\ \A i \in DOMAIN reqs : reqs[i].phase \in {"ended", "closed"}

\* A context that never takes itself to be bound to a transaction.
isBound_never == FALSE

\* save, line 269, and delete, line 321: if (this.id).
isBound == id # NoId

\* A continuation queue that takes the newest continuation first.
pushCallback_front(queue, cb) == <<cb>> \o queue

\* save, line 271: this.requestCallbacks_.push(onCommit).
pushCallback(queue, cb) == Append(queue, cb)

\* save, lines 228-275: save(entities, callback), called as call number op
\* with the descriptors at the positions targets of the caller's array.
save(targets, op) ==
    LET ents == [k \in DOMAIN targets |-> entityObjs[targets[k]]]
        acc == saveReduce(ents, 1, [upsert |-> <<>>, insert_auto_id |-> <<>>,
                                    insertIndexes |-> <<>>])
        req == [mutation |-> [upsert |-> acc.upsert,
                              insert_auto_id |-> acc.insert_auto_id]]
        onCommit == [kind |-> "onCommit", op |-> op, entities |-> targets,
                     insertIndexes |-> acc.insertIndexes]
    IN  /\ entityObjs' = [e \in DOMAIN entityObjs |->
                            IF e \in Range(targets)
                            THEN [entityObjs[e] EXCEPT !.data = saveData(@)]
                            ELSE entityObjs[e]]
        /\ IF isBound
           THEN /\ requests_' = Append(requests_, req)
                /\ requestCallbacks_' = pushCallback(requestCallbacks_, onCommit)
                /\ UNCHANGED reqs
           ELSE /\ reqs' = Append(reqs, makeReq_("commit", req, onCommit, 0))
                /\ UNCHANGED <<requests_, requestCallbacks_>>

\* A reconciliation that takes the position in the response for the
\* position in the input.
targetIndex_responsePosition(insertIndexes, index) == index

\* save, line 286: insertIndexes[index], the input position of the entity the
\* index-th generated key belongs to; 0 when nothing is recorded there.
targetIndex(insertIndexes, index) ==
    IF index \in DOMAIN insertIndexes THEN insertIndexes[index] ELSE 0

\* save, lines 284-287: the forEach over the generated keys, from index on.
\* entities[undefined].key throws, and leaves the paths written before it.
RECURSIVE reconcile(_, _, _, _)
reconcile(cb, autoInserted, index, keys) ==
    IF index > Len(autoInserted)
    THEN [keys |-> keys, threw |-> FALSE]
    ELSE LET at == targetIndex(cb.insertIndexes, index)
         IN  IF at \notin DOMAIN cb.entities
             THEN [keys |-> keys, threw |-> TRUE]
             ELSE reconcile(cb, autoInserted, index + 1,
                            [keys EXCEPT ![entityObjs[cb.entities[at]].key].path =
                               keyFromKeyProto(autoInserted[index]).path])

\* A commit taken to have failed only when it reports an error.
commitFailed_errOnly(err, resp) == err # NoErr

\* save, line 278: err || !resp.
commitFailed(err, resp) == err # NoErr \/ resp = Undefined

\* save, lines 277-290: onCommit(err, resp), invoked by dispatch by (0: by the
\* transaction).  Reading mutation_result of an absent resp, or
\* insert_auto_id_key of an absent mutation_result, throws.
onCommit(cb, err, resp, by) ==
    LET entry == [op |-> cb.op, err |-> err, resp |-> resp, by |-> by]
    IN  IF commitFailed(err, resp)
        THEN /\ Deliver(cb.op, err, Undefined, by)
             /\ commits' = Append(commits, ("threw" :> FALSE) @@ entry)
             /\ UNCHANGED keyObjs
        ELSE IF resp = Undefined \/ resp.mutation_result = <<>>
        THEN /\ commits' = Append(commits, ("threw" :> TRUE) @@ entry)
             /\ UNCHANGED <<calls, keyObjs>>
        ELSE LET done == reconcile(cb, resp.mutation_result[1].insert_auto_id_key, 1,
                                   keyObjs)
             IN  /\ keyObjs' = done.keys
                 /\ commits' = Append(commits, ("threw" :> done.threw) @@ entry)
                 /\ IF done.threw
                    THEN UNCHANGED calls
                    ELSE Deliver(cb.op, NoErr, Undefined, by)

\* A delete that queues a continuation with its request, as save does.
delete_queuesCallback(targets, op) ==
    LET keys == [k \in DOMAIN targets |-> keyObjs[targets[k]]]
        req == [mutation |-> [delete |-> Map(keyToKeyProto, keys)]]
    IN  IF isBound
        THEN /\ requests_' = Append(requests_, req)
             /\ requestCallbacks_' = Append(requestCallbacks_,
                                            [kind |-> "callback", op |-> op])
             /\ UNCHANGED reqs
        ELSE /\ reqs' = Append(reqs, makeReq_("commit", req,
                                              [kind |-> "callback", op |-> op], 0))
             /\ UNCHANGED <<requests_, requestCallbacks_>>

\* delete, lines 309-327: delete(keys, callback), called as call number op
\* with the caller's key objects at the positions targets.
delete(targets, op) ==
    LET keys == [k \in DOMAIN targets |-> keyObjs[targets[k]]]
        req == [mutation |-> [delete |-> Map(keyToKeyProto, keys)]]
    IN  IF isBound
        THEN /\ requests_' = Append(requests_, req)
             /\ UNCHANGED <<requestCallbacks_, reqs>>
        ELSE /\ reqs' = Append(reqs, makeReq_("commit", req,
                                              [kind |-> "callback", op |-> op], 0))
             /\ UNCHANGED <<requests_, requestCallbacks_>>

\* The caller saves its array of entity descriptors, or its first descriptor
\* alone.
saveCall ==
    /\ MayCall
    /\ \E isMultipleRequest \in BOOLEAN :
          /\ isMultipleRequest \/ entityObjs # <<>>
          /\ save(IF isMultipleRequest THEN [k \in DOMAIN entityObjs |-> k] ELSE <<1>>,
                  Len(ops) + 1)
    /\ ops' = Append(ops, "save")
    /\ UNCHANGED <<id, calls, keyObjs, given, commits, queryVars>>

\* The caller deletes the keys of its descriptors, or the first key alone.
deleteCall ==
    /\ MayCall
    /\ \E isMultipleRequest \in BOOLEAN :
          /\ isMultipleRequest \/ keyObjs # <<>>
          /\ delete(IF isMultipleRequest THEN [k \in DOMAIN keyObjs |-> k] ELSE <<1>>,
                    Len(ops) + 1)
    /\ ops' = Append(ops, "delete")
    /\ UNCHANGED <<id, calls, keyObjs, entityObjs, given, commits, queryVars>>

\* pbResponse.decode for a CommitResponse: mutation_result is optional.
decodeCommit(buffer) ==
    [mutation_result |-> IF buffer = <<>> THEN <<>> ELSE <<buffer[1].val>>]

\* The key the store generates for the n-th entity of an insert_auto_id batch.
generatedKey(n) == [path_element |-> <<"Company", 100 + n>>]

\* The store's answers to a commit: a mutation result with generated keys,
\* one per insert_auto_id entity when the store keeps its contract, fewer or
\* one more when it does not, or no mutation result at all.
commitResponses(body) ==
    LET n == IF "insert_auto_id" \in DOMAIN body.mutation
             THEN Len(body.mutation.insert_auto_id) ELSE 0
    IN  {<<>>} \cup
        {<<[tag |-> "mutation_result",
            val |-> [insert_auto_id_key |-> [j \in 1..m |-> generatedKey(j)]]]>>
           : m \in 0..(n + 1)}

\* The store's answer to a commit when it keeps its contract.
commitResponse(body) ==
    <<[tag |-> "mutation_result",
       val |-> [insert_auto_id_key |->
                  [j \in 1..Len(body.mutation.insert_auto_id) |-> generatedKey(j)]]]>>

\* The transaction, when it commits, invokes a queued continuation, once:
\* with an error, with nothing, or with the response to the queued request.
requestCallbackRun ==
    \E k \in DOMAIN requestCallbacks_ :
        /\ \A n \in DOMAIN commits : commits[n].op # requestCallbacks_[k].op
        /\ \/ onCommit(requestCallbacks_[k], "CommitError", Undefined, 0)
           \/ onCommit(requestCallbacks_[k], NoErr, Undefined, 0)
           \/ onCommit(requestCallbacks_[k], NoErr,
                       decodeCommit(commitResponse(requests_[requestCallbacks_[k].op])), 0)
        /\ UNCHANGED <<ctxVars, reqs, entityObjs, given, ops, queryVars>>

\* ---------------------------------------------------------------- query
\* A query object: limitVal is -1 when the query has no limit, startVal is
\* empty when it has no start cursor.
NoLimit == -1
NoQuery == [limitVal |-> NoLimit, offsetVal |-> 0, startVal |-> <<>>]

\* Query.prototype.start and Query.prototype.offset: a copy of the query
\* with the start cursor, and with the offset, replaced.
start(query, cursor) == [query EXCEPT !.startVal = <<cursor>>]
offset(query, n) == [query EXCEPT !.offsetVal = n]

\* entity.queryToQueryProto: the wire query; a limit and an offset are sent
\* when they are positive, a start cursor when there is one.
queryToQueryProto(query) ==
    [limit |-> IF query.limitVal > 0 THEN <<query.limitVal>> ELSE <<>>,
     offset |-> IF query.offsetVal > 0 THEN <<query.offsetVal>> ELSE <<>>,
     start_cursor |-> query.startVal]

\* A cursor of the store, the position after the n-th entity, and its
\* base64 text.
Cursor(n) == [position |-> n]
toBase64(cursor) == [base64 |-> cursor.position]
fromBase64(text) == [position |-> text.base64]

\* No stream: runQuery has not been called, or was called with a callback.
NoStream ==
    [mode |-> "none", readings |-> 0, resultsToSend |-> NoLimit, ended |-> FALSE,
     out |-> <<>>]

\* stream.push(result): an item for the consumer, or the error of a push
\* after the stream has ended.
push(st, result) ==
    IF st.ended
    THEN [st EXCEPT !.out = Append(@, [ev |-> "error", val |-> "push after EOF"])]
    ELSE [st EXCEPT !.out = Append(@, [ev |-> "data", val |-> result])]

\* stream.end().
end(st) ==
    IF st.ended THEN st ELSE [st EXCEPT !.ended = TRUE, !.out = Append(@, [ev |-> "end", val |-> "end"])]

\* stream.emit('error', err).
emitError(st, err) == [st EXCEPT !.out = Append(@, [ev |-> "error", val |-> err])]

\* runQuery, lines 392-393: the inner runQuery dispatches the request for
\* the query query.
runQueryDispatch(query, parent) ==
    makeReq_("runQuery", [read_options |-> <<>>, query |-> queryToQueryProto(query)],
             [kind |-> "runQuery"], parent)

\* A loop that takes the entities of the page from its end.
RECURSIVE pushLoop_fromEnd(_, _)
pushLoop_fromEnd(st, ents) ==
    IF ents = <<>> \/ st.resultsToSend = 0
    THEN st
    ELSE pushLoop_fromEnd([push(st, ents[Len(ents)]) EXCEPT !.resultsToSend = @ - 1],
                          SubSeq(ents, 1, Len(ents) - 1))

\* runQuery, lines 421-425: while ((result = entities.shift()) &&
\* resultsToSend !== 0) { stream.push(result); resultsToSend--; }
RECURSIVE pushLoop(_, _)
pushLoop(st, ents) ==
    IF ents = <<>> \/ st.resultsToSend = 0
    THEN st
    ELSE pushLoop([push(st, Head(ents)) EXCEPT !.resultsToSend = @ - 1], Tail(ents))

\* An end cursor that loses the cursor of the batch.
endCursor_dropsCursor(batch) == <<>>

\* runQuery, lines 406-409: var cursor = ''; if (resp.batch.end_cursor)
\* cursor = resp.batch.end_cursor.toBase64(); the empty sequence is the
\* empty string, a one-element sequence a base64 text.
endCursor(batch) ==
    IF batch.end_cursor # <<>> THEN <<toBase64(batch.end_cursor[1])>> ELSE <<>>

\* A next query that keeps the offset of the original query.
nextQuery_staleOffset(query, cursor) == start(query, cursor)

\* runQuery, line 432: q.start(cursor).offset(0), the query of the next page.
nextQuery(query, cursor) == offset(start(query, cursor), 0)

\* runQuery, lines 393-434: the continuation of the runQuery dispatch i,
\* whose record after the transport event is r.
runQueryCallback(i, r, err, resp) ==
    LET ents == formatArray(resp.batch.entity_result)
        cursor == endCursor(resp.batch)
        sent == pushLoop(stream, ents)
    IN  IF err # NoErr
        THEN IF stream.mode = "stream"
             THEN /\ stream' = end(emitError(stream, err))
                  /\ reqs' = [reqs EXCEPT ![i] = r]
                  /\ UNCHANGED calls
             ELSE /\ Deliver(1, err, Undefined, i)
                  /\ reqs' = [reqs EXCEPT ![i] = r]
                  /\ UNCHANGED stream
        ELSE IF stream.mode # "stream"
        THEN /\ Deliver(1, NoErr, [t |-> "page", v |-> ents, cursor |-> cursor], i)
             /\ reqs' = [reqs EXCEPT ![i] = r]
             /\ UNCHANGED stream
        ELSE IF cursor = <<>> \/ Len(ents) = 0
        THEN /\ stream' = end(stream)
             /\ reqs' = [reqs EXCEPT ![i] = r]
             /\ UNCHANGED calls
        ELSE IF sent.resultsToSend = 0
        THEN /\ stream' = end(sent)
             /\ reqs' = [reqs EXCEPT ![i] = r]
             /\ UNCHANGED calls
        ELSE /\ stream' = sent
             /\ reqs' = Append([reqs EXCEPT ![i] = r],
                               runQueryDispatch(nextQuery(q, cursor[1]), i))
             /\ UNCHANGED calls

\* runQuery, lines 368-390: runQuery(q, callback) called without a callback
\* returns a stream that waits for 'reading'; called with one it dispatches.
runQueryCall ==
    /\ stream.mode = "none"
    /\ \/ /\ stream' = [NoStream EXCEPT !.mode = "stream", !.resultsToSend = q.limitVal]
          /\ UNCHANGED reqs
       \/ /\ stream' = [NoStream EXCEPT !.mode = "page", !.resultsToSend = q.limitVal]
          /\ reqs' = <<runQueryDispatch(q, 0)>>
    /\ UNCHANGED <<ctxVars, calls, mutVars, q, total>>

\* A listener that runs on every 'reading'.
once_everyTime(readings) == TRUE

\* stream.once: the listener runs on the first event only; readings is the
\* number of 'reading' events before this one.
once(readings) == readings = 0

\* runQuery, line 386: stream.once('reading', runQuery); the consumer reads,
\* and only the first 'reading' runs the listener.
onReading ==
    /\ stream.mode = "stream"
    /\ stream.readings < MaxReadings
    /\ stream' = [stream EXCEPT !.readings = @ + 1]
    /\ reqs' = IF once(stream.readings) THEN Append(reqs, runQueryDispatch(q, 0)) ELSE reqs
    /\ UNCHANGED <<ctxVars, calls, mutVars, q, total>>

\* pbResponse.decode for a RunQueryResponse: batch is required.
decodeRunQuery(buffer) == [batch |-> buffer[1].val]

\* The store's answers to a runQuery: the entities after the start cursor
\* and the offset, at least one when there is one and at most the limit,
\* with an end cursor after the last of them, or with none.
queryResponses(body) ==
    LET from == (IF body.query.start_cursor = <<>> THEN 0
                 ELSE fromBase64(body.query.start_cursor[1]).position)
                  + (IF body.query.offset = <<>> THEN 0 ELSE body.query.offset[1])
        left == IF total > from THEN total - from ELSE 0
        most == IF body.query.limit # <<>> /\ body.query.limit[1] < left
                THEN body.query.limit[1] ELSE left
        after(n) == Cursor(IF from + n < total THEN from + n ELSE total)
    IN  { <<[tag |-> "batch",
             val |-> [entity_result |-> [j \in 1..n |-> EntityResult(Key(from + j))],
                      end_cursor |-> IF c THEN <<after(n)>> ELSE <<>>]]>>
          : n \in {m \in 0..most : m > 0 \/ most = 0}, c \in BOOLEAN }

\* ---------------------------------------------------------- allocateIds
\* A key list that holds one copy of the key, whatever n is.
incompleteKeys_oneCopy(incompleteKey, n) == <<keyToKeyProto(incompleteKey)>>

\* allocateIds, lines 470-473: n copies of the wire form of the key.
incompleteKeys(incompleteKey, n) == [i \in 1..n |-> keyToKeyProto(incompleteKey)]

\* allocateIds, lines 466-479: a complete key throws before anything is
\* dispatched; otherwise the request is dispatched. ops records the call
\* and whether it threw.
allocateIds(incompleteKey, n) ==
    IF isKeyComplete(incompleteKey)
    THEN /\ ops' = Append(ops, [call |-> "allocateIds", n |-> n, threw |-> TRUE])
         /\ UNCHANGED reqs
    ELSE /\ ops' = Append(ops, [call |-> "allocateIds", n |-> n, threw |-> FALSE])
         /\ reqs' = Append(reqs, makeReq_("allocateIds",
                                          [key |-> incompleteKeys(incompleteKey, n)],
                                          [kind |-> "allocateIds"], 0))

\* allocateIds, lines 479-488: the continuation of the allocateIds dispatch.
allocateIdsCallback(i, r, err, resp) ==
    /\ reqs' = [reqs EXCEPT ![i] = r]
    /\ IF err # NoErr
       THEN Deliver(1, err, Undefined, i)
       ELSE Deliver(1, NoErr, JsArray(Map(keyFromKeyProto, resp.key)), i)

\* The caller allocates n ids for its key, complete or not.
allocateIdsCall ==
    /\ ops = <<>>
    /\ \E n \in 0..MaxAlloc : allocateIds(keyObjs[1], n)
    /\ UNCHANGED <<ctxVars, calls, keyObjs, entityObjs, given, commits, queryVars>>

\* pbResponse.decode for an AllocateIdsResponse: the repeated key field.
decodeAllocateIds(buffer) == [key |-> Map(LAMBDA f : f.val, buffer)]

\* The store's answers to an allocateIds: one generated key for each key of
\* the request, in an order of the store's choosing.
allocateIdsResponses(body) ==
    { Map(LAMBDA n : [tag |-> "key", val |-> generatedKey(n)], o)
        : o \in {s \in Orderings(1..Len(body.key)) : Len(s) = Len(body.key)} }

\* makeReq_ called as in its example, lines 502-507: the context commits a
\* delete request of its own making.
makeReqCall ==
    /\ reqs = <<>>
    /\ reqs' = <<makeReq_("commit", [mutation |-> [delete |-> <<keyToKeyProto(Key(1))>>]],
                          [kind |-> "callback", op |-> 1], 0)>>
    /\ UNCHANGED <<ctxVars, calls, callerVars>>

\* ------------------------------------------------------------ transport
\* The continuation given to makeReq_ for dispatch i is invoked with
\* (err, resp); r is the dispatch's record after the transport event.
callback(i, r, err, resp) ==
    LET r2 == [r EXCEPT !.cbs = Append(@, err)]
    IN  CASE r.callback.kind = "get" -> getCallback(i, r2, err, resp)
          [] r.callback.kind = "onCommit" ->
                /\ reqs' = [reqs EXCEPT ![i] = r2]
                /\ onCommit(r.callback, err, resp, i)
                /\ UNCHANGED <<ctxVars, entityObjs, given, ops, queryVars>>
          [] r.callback.kind = "runQuery" ->
                /\ runQueryCallback(i, r2, err, resp)
                /\ UNCHANGED <<ctxVars, mutVars, q, total>>
          [] r.callback.kind = "allocateIds" ->
                /\ allocateIdsCallback(i, r2, err, resp)
                /\ UNCHANGED <<ctxVars, keyObjs, entityObjs, given, ops, commits,
                               queryVars>>
          [] r.callback.kind = "callback" ->
                /\ reqs' = [reqs EXCEPT ![i] = r2]
                /\ Deliver(r.callback.op, err,
                           IF err = NoErr THEN JsObject(resp) ELSE Undefined, i)
                /\ UNCHANGED <<ctxVars, callerVars>>

\* util.handleResp: the status check made before the body is decoded.
handleResp(status) ==
    IF status >= 200 /\ status <= 299 THEN NoErr ELSE "HttpError"

\* pbResponse.decode(buffer) for the response type of the method.
decode(method, buffer) ==
    CASE method = "lookup" -> decodeLookup(buffer)
      [] method = "commit" -> decodeCommit(buffer)
      [] method = "runQuery" -> decodeRunQuery(buffer)
      [] method = "allocateIds" -> decodeAllocateIds(buffer)

\* A buffer decode does not throw on: every field of a LookupResponse and of
\* a CommitResponse is optional, the batch of a RunQueryResponse is required.
decodes(method, buffer) == method = "runQuery" => buffer # <<>>

\* The store's answers to a lookup: any of the requested keys found, in any
\* order, and any of the others deferred while the store still defers;
\* found fields precede deferred fields on the wire.
lookupWires(r) ==
    LET ks == Map(keyFromKeyProto, r.body.key)
        mayDefer == Len(r.callback.outer) < MaxRounds
    IN  UNION {
          { Map(LAMBDA k : [tag |-> "found", val |-> EntityResult(k)], f)
              \o Map(LAMBDA k : [tag |-> "deferred", val |-> keyToKeyProto(k)],
                     Restrict(ks, D))
            : D \in {X \in SUBSET (Range(ks) \ Range(f)) : X = {} \/ mayDefer} }
          : f \in Orderings(Range(ks)) }

storeWires(r) ==
    CASE r.method = "lookup" -> lookupWires(r)
      [] r.method = "commit" -> commitResponses(r.body)
      [] r.method = "runQuery" -> queryResponses(r.body)
      [] r.method = "allocateIds" -> allocateIdsResponses(r.body)

\* makeReq_, lines 547-571: makeAuthorizedRequest_ calls onAuthorized, with
\* an error or with the authorized request, which is then written and ended.
onAuthorized(i) ==
    /\ reqs[i].phase = "auth"
    /\ \/ callback(i, [reqs[i] EXCEPT !.phase = "closed"], "AuthError", Undefined)
       \/ /\ reqs' = [reqs EXCEPT ![i].phase = "open"]
          /\ UNCHANGED <<ctxVars, calls, callerVars>>

\* makeReq_, lines 553-554: the response arrives; the store has answered
\* with a status and a body, and the buffer starts empty.
onResponse(i) ==
    /\ reqs[i].phase = "open"
    /\ \/ \E w \in storeWires(reqs[i]) :
            reqs' = [reqs EXCEPT ![i].phase = "resp", ![i].status = 200,
                                 ![i].rest = w, ![i].buffer = <<>>]
       \/ reqs' = [reqs EXCEPT ![i].phase = "resp", ![i].status = 500,
                               ![i].rest = <<>>, ![i].buffer = <<>>]
    /\ UNCHANGED <<ctxVars, calls, callerVars>>

\* makeReq_, lines 555-557: a chunk of the body arrives.
concatChunk(buffer, chunk) == buffer \o chunk

onData(i) ==
    /\ reqs[i].phase = "resp"
    /\ ~reqs[i].erred
    /\ \E n \in 1..Len(reqs[i].rest) :
          reqs' = [reqs EXCEPT
                     ![i].buffer = concatChunk(@, SubSeq(reqs[i].rest, 1, n)),
                     ![i].rest = SubSeq(@, n + 1, Len(@))]
    /\ UNCHANGED <<ctxVars, calls, callerVars>>

\* makeReq_, lines 558-566: the response ends, after its whole body or, once
\* the connection has failed, after what had arrived.  A body cut inside a
\* field makes decode throw, and nothing is called.
onEnd(i) ==
    LET r == reqs[i]
        ended == [r EXCEPT !.phase = "ended"]
    IN  /\ r.phase = "resp"
        /\ r.rest = <<>> \/ r.erred
        /\ IF handleResp(r.status) # NoErr
           THEN callback(i, ended, handleResp(r.status), Undefined)
           ELSE \/ /\ decodes(r.method, r.buffer)
                   /\ callback(i, [ended EXCEPT !.decoded = <<decode(r.method, r.buffer)>>],
                               NoErr, decode(r.method, r.buffer))
                \/ /\ r.rest # <<>>
                   /\ reqs' = [reqs EXCEPT ![i] = ended]
                   /\ UNCHANGED <<ctxVars, calls, callerVars>>

\* makeReq_, line 568: the request emits 'error', at most once and while its
\* socket is attached: before the response, during it or after its end.
onError(i) ==
    LET r == reqs[i]
    IN  /\ r.phase \in {"open", "resp", "ended"}
        /\ ~r.erred
        /\ Cardinality({j \in DOMAIN reqs : reqs[j].erred}) < MaxErrors
        /\ callback(i, [r EXCEPT !.erred = TRUE,
                                 !.phase = IF r.phase = "resp" THEN "resp" ELSE "closed"],
                    "ECONNRESET", Undefined)

\* ------------------------------------------------------- specifications
InitCtx ==
    /\ id \in {NoId, TxnId}
    /\ requests_ = <<>>
    /\ requestCallbacks_ = <<>>
    /\ reqs = <<>>
    /\ calls = <<>>
    /\ ops = <<>>
    /\ commits = <<>>
    /\ stream = NoStream

\* One get call, on a bound or an unbound context, and its dispatches.
InitGet ==
    /\ InitCtx
    /\ keyObjs = <<>>
    /\ entityObjs = <<>>
    /\ given = [keyObjs |-> keyObjs, entityObjs |-> entityObjs]
    /\ q = NoQuery
    /\ total = 0

NextGet ==
    \/ getCall
    \/ \E i \in DOMAIN reqs : onAuthorized(i)
    \/ \E i \in DOMAIN reqs : onResponse(i)
    \/ \E i \in DOMAIN reqs : onData(i)
    \/ \E i \in DOMAIN reqs : onEnd(i)
    \/ \E i \in DOMAIN reqs : onError(i)

SpecGet == InitGet /\ [][NextGet]_vars

\* The transport makes progress on a dispatch: its authorization, its
\* response, a chunk of its body or the end of its body.
Progress ==
    \E i \in DOMAIN reqs : onAuthorized(i) \/ onResponse(i) \/ onData(i) \/ onEnd(i)

\* A get whose dispatches all eventually complete: no request emits
\* 'error', and the transport keeps making progress while it can. The store
\* defers in at most MaxRounds rounds.
NextGetLive ==
    \/ getCall
    \/ \E i \in DOMAIN reqs : onAuthorized(i)
    \/ \E i \in DOMAIN reqs : onResponse(i)
    \/ \E i \in DOMAIN reqs : onData(i)
    \/ \E i \in DOMAIN reqs : onEnd(i)

SpecGetLive == InitGet /\ [][NextGetLive]_vars /\ WF_vars(Progress)

\* One dispatch chain on a bound or an unbound context: a get and its
\* lookups, or a commit.
NextFrame ==
    \/ getCall
    \/ makeReqCall
    \/ \E i \in DOMAIN reqs : onAuthorized(i)
    \/ \E i \in DOMAIN reqs : onResponse(i)
    \/ \E i \in DOMAIN reqs : onData(i)
    \/ \E i \in DOMAIN reqs : onEnd(i)
    \/ \E i \in DOMAIN reqs : onError(i)

SpecFrame == InitGet /\ [][NextFrame]_vars

\* The caller's data: a plain property bag, or an explicit property list
\* with and without excludeFromIndexes.
DataBag ==
    [t |-> "object",
     v |-> <<[name |-> "rating", value |-> Raw("10"), excludeFromIndexes |-> "absent"]>>]

DataList ==
    [t |-> "array",
     v |-> <<[name |-> "rating", value |-> Raw("10"), excludeFromIndexes |-> "false"],
             [name |-> "HQ", value |-> Raw("TX"), excludeFromIndexes |-> "absent"]>>]

\* save and delete calls, on a bound or an unbound context, on up to MaxEnts
\* entity descriptors, each with its own key object, complete or not; the
\* first descriptors carry property lists, the others property bags.
InitMut ==
    /\ InitCtx
    /\ \E n \in 0..MaxEnts :
          /\ keyObjs \in [1..n -> {IncompleteKey} \cup {Key(k) : k \in 1..n}]
          /\ \A k \in 1..n : isKeyComplete(keyObjs[k]) => keyObjs[k] = Key(k)
          /\ \E d \in 0..n :
                entityObjs = [k \in 1..n |->
                                [key |-> k, data |-> IF k > d THEN DataBag ELSE DataList]]
    /\ given = [keyObjs |-> keyObjs, entityObjs |-> entityObjs]
    /\ q = NoQuery
    /\ total = 0

NextMut ==
    \/ saveCall
    \/ deleteCall
    \/ requestCallbackRun
    \/ \E i \in DOMAIN reqs : onAuthorized(i)
    \/ \E i \in DOMAIN reqs : onResponse(i)
    \/ \E i \in DOMAIN reqs : onData(i)
    \/ \E i \in DOMAIN reqs : onEnd(i)
    \/ \E i \in DOMAIN reqs : onError(i)

SpecMut == InitMut /\ [][NextMut]_vars

\* One runQuery call, with or without a callback, for a query with or
\* without a limit and an offset, on a store of up to MaxTotal entities.
InitQuery ==
    /\ InitCtx
    /\ keyObjs = <<>>
    /\ entityObjs = <<>>
    /\ given = [keyObjs |-> keyObjs, entityObjs |-> entityObjs]
    /\ \E limitVal \in {NoLimit} \cup 0..MaxLimit, offsetVal \in 0..MaxOffset :
          q = [limitVal |-> limitVal, offsetVal |-> offsetVal, startVal |-> <<>>]
    /\ total \in 0..MaxTotal

NextQuery ==
    \/ runQueryCall
    \/ onReading
    \/ \E i \in DOMAIN reqs : onAuthorized(i)
    \/ \E i \in DOMAIN reqs : onResponse(i)
    \/ \E i \in DOMAIN reqs : onData(i)
    \/ \E i \in DOMAIN reqs : onEnd(i)
    \/ \E i \in DOMAIN reqs : onError(i)

SpecQuery == InitQuery /\ [][NextQuery]_vars

\* One allocateIds call, for a key that is incomplete or complete.
InitAlloc ==
    /\ InitCtx
    /\ keyObjs \in {<<IncompleteKey>>, <<Key(1)>>}
    /\ entityObjs = <<>>
    /\ given = [keyObjs |-> keyObjs, entityObjs |-> entityObjs]
    /\ q = NoQuery
    /\ total = 0

NextAlloc ==
    \/ allocateIdsCall
    \/ \E i \in DOMAIN reqs : onAuthorized(i)
    \/ \E i \in DOMAIN reqs : onResponse(i)
    \/ \E i \in DOMAIN reqs : onData(i)
    \/ \E i \in DOMAIN reqs : onEnd(i)
    \/ \E i \in DOMAIN reqs : onError(i)

SpecAlloc == InitAlloc /\ [][NextAlloc]_vars

\* ------------------------------------------------------ claims about get
\* The dispatches from the first one of a call down to dispatch i.
RECURSIVE Chain(_)
Chain(i) == IF i = 0 THEN <<>> ELSE Append(Chain(reqs[i].parent), i)

\* The response dispatch i decoded.
Resp(i) == reqs[i].decoded[1]

\* The entities of the found list of the response dispatch i decoded.
FoundOf(i) == [n \in DOMAIN Resp(i).found |->
                 [key |-> [path |-> Resp(i).found[n].entity.key.path_element]]]

\* The keys dispatch i requested.
KeysOf(i) == [n \in DOMAIN reqs[i].body.key |->
                [path |-> reqs[i].body.key[n].path_element]]

CalledWithArray == reqs # <<>> /\ reqs[1].callback.isMultipleRequest
CalledWithSingle == reqs # <<>> /\ ~reqs[1].callback.isMultipleRequest

Successes == {n \in DOMAIN calls : calls[n].err = NoErr}

\* C1: every result a get called with an array delivers is the found list of
\* the first response followed by the found lists of the responses of every
\* later round, in round order: nothing is lost and nothing is added.
C1_DeferredUnion ==
    CalledWithArray =>
        \A n \in Successes :
            /\ calls[n].val.t = "array"
            /\ calls[n].val.v =
                 Concat([k \in DOMAIN Chain(calls[n].by) |-> FoundOf(Chain(calls[n].by)[k])])

\* C1 witness: a result delivered after three rounds of deferral, holding an
\* entity of the first response and one of the last.
C1_Witness ==
    /\ CalledWithArray
    /\ \E n \in Successes :
          /\ Len(Chain(calls[n].by)) = 4
          /\ FoundOf(1) # <<>>
          /\ FoundOf(calls[n].by) # <<>>
          /\ Len(calls[n].val.v) = 2

\* C2: a get called with a single key never delivers an array (it delivers an
\* entity or undefined), and a get called with an array always delivers an
\* array, after deferral rounds too.
C2_ShapePreserved ==
    \A n \in Successes :
        /\ CalledWithSingle => calls[n].val.t \in {"object", "undefined"}
        /\ CalledWithArray => calls[n].val.t = "array"

\* C2 witness: an array of one key, resolved after a deferral round, has
\* delivered an array of one entity.
C2_Witness ==
    /\ CalledWithArray
    /\ Len(reqs[1].body.key) = 1
    /\ \E n \in Successes :
          /\ calls[n].by > 1
          /\ calls[n].val.t = "array"
          /\ Len(calls[n].val.v) = 1

\* C2 witness of the scalar shape: a single key has delivered its entity.
C2_WitnessSingle ==
    /\ CalledWithSingle
    /\ \E n \in Successes : calls[n].val.t = "object"

\* The results delivered from the first response of a get called with an
\* array, when that response defers no key.
Undeferred ==
    {n \in Successes : CalledWithArray /\ calls[n].by = 1 /\ Resp(1).deferred = <<>>}

\* C3 as stated: with no deferral the entities come in the order their keys
\* were supplied, keys not found are absent, and there are at most as many
\* entities as keys.
C3_KeyOrder ==
    \A n \in Undeferred :
        /\ [m \in DOMAIN calls[n].val.v |-> calls[n].val.v[m].key]
             = Restrict(KeysOf(1), {calls[n].val.v[m].key : m \in DOMAIN calls[n].val.v})
        /\ Len(calls[n].val.v) <= Len(KeysOf(1))

\* C3 amended: with no deferral the entities come in the order the store's
\* response lists them (the order the keys were supplied whenever the store
\* answers in that order), keys the response does not list as found are
\* absent, and there are at most as many entities as keys.
C3_StoreOrder ==
    \A n \in Undeferred :
        /\ calls[n].val.v = FoundOf(1)
        /\ \A k \in Range(KeysOf(1)) :
              (\E m \in DOMAIN calls[n].val.v : calls[n].val.v[m].key = k)
                 <=> (\E m \in DOMAIN Resp(1).found :
                         Resp(1).found[m].entity.key.path_element = k.path)
        /\ Len(calls[n].val.v) <= Len(KeysOf(1))

\* C3 witness: two keys supplied, both found, delivered in the store's order,
\* which is not the order supplied.
C3_Witness ==
    \E n \in Undeferred :
        /\ Len(calls[n].val.v) = 2
        /\ calls[n].val.v[1].key = KeysOf(1)[2]
        /\ calls[n].val.v[2].key = KeysOf(1)[1]

\* The dispatches whose continuation has been invoked with an error.
Failed == {i \in DOMAIN reqs : \E n \in DOMAIN reqs[i].cbs : reqs[i].cbs[n] # NoErr}

\* C4 as stated: once a lookup dispatch of a get has failed, the caller's
\* continuation has been invoked exactly once, with the error and no
\* entities, and a dispatch that has failed issues no further lookup.
C4_ErrorOnce ==
    Failed # {} =>
        /\ Len(calls) = 1
        /\ calls[1].err # NoErr
        /\ calls[1].val = Undefined
        /\ \A i \in Failed :
              reqs[i].cbs[1] # NoErr => \A j \in DOMAIN reqs : reqs[j].parent # i

\* ----------------------------------------- claims about save and delete
\* The onCommit invocations that reconciled a response: no error, a response
\* with a mutation result.
Reconciled ==
    {n \in DOMAIN commits :
        /\ commits[n].err = NoErr
        /\ commits[n].resp # Undefined
        /\ commits[n].resp.mutation_result # <<>>}

\* The generated keys of the response onCommit invocation n reconciled.
GeneratedOf(n) == commits[n].resp.mutation_result[1].insert_auto_id_key

\* The descriptors the first call saved, as positions of the caller's array.
FirstSaved == reqs[1].callback.entities

\* The positions in the first call's input whose key the caller built
\* incomplete, in ascending order.
RECURSIVE IncompleteFrom(_)
IncompleteFrom(k) ==
    IF k > Len(FirstSaved)
    THEN <<>>
    ELSE (IF isKeyComplete(given.keyObjs[given.entityObjs[FirstSaved[k]].key])
          THEN <<>> ELSE <<k>>) \o IncompleteFrom(k + 1)

\* The successful commits of a first, non-transactional save whose response
\* holds one generated key per entity with an incomplete key.
FirstSaveCommitted ==
    {n \in Reconciled :
        /\ commits[n].op = 1
        /\ commits[n].by > 0
        /\ Len(GeneratedOf(n)) = Len(IncompleteFrom(1))}

\* C5: after a successful non-transactional save whose response holds one
\* generated key per incomplete-key entity, the i-th generated key's path is
\* on the key object of the i-th incomplete-key entity of the input, and the
\* key object of every complete-key entity is as the caller built it.
C5_KeysReconciled ==
    \A n \in FirstSaveCommitted :
        /\ \A j \in DOMAIN IncompleteFrom(1) :
              keyObjs[given.entityObjs[FirstSaved[IncompleteFrom(1)[j]]].key].path
                = GeneratedOf(n)[j].path_element
        /\ \A k \in DOMAIN FirstSaved :
              LET key == given.entityObjs[FirstSaved[k]].key
              IN  isKeyComplete(given.keyObjs[key]) => keyObjs[key] = given.keyObjs[key]

\* C5 witness: [incomplete A, complete B, incomplete C] saved, two keys
\* generated: A and C carry them, B is untouched.
C5_Witness ==
    /\ FirstSaveCommitted # {}
    /\ Len(given.keyObjs) = 3
    /\ FirstSaved = <<1, 2, 3>>
    /\ given.keyObjs = <<IncompleteKey, Key(2), IncompleteKey>>
    /\ keyObjs = <<[path |-> <<"Company", 101>>], Key(2), [path |-> <<"Company", 102>>]>>

\* C6: on a context with a transaction id every save and delete call has
\* appended exactly one request to the pending-request queue and nothing has
\* been dispatched; on a context without one every call has made exactly one
\* 'commit' dispatch and the pending queues are untouched.
C6_TransactionSwitch ==
    IF id # NoId
    THEN Len(requests_) = Len(ops) /\ reqs = <<>>
    ELSE /\ Len(reqs) = Len(ops)
         /\ \A i \in DOMAIN reqs : reqs[i].method = "commit"
         /\ requests_ = <<>>
         /\ requestCallbacks_ = <<>>

\* C6 witness: a save and a delete on a bound context, both queued.
C6_Witness ==
    /\ id # NoId
    /\ Range(ops) = {"save", "delete"}
    /\ Len(requests_) = 2

\* C6 witness on an unbound context: a call, and its commit dispatch.
C6_WitnessUnbound ==
    /\ id = NoId
    /\ Len(ops) = 1
    /\ Len(reqs) = 1

\* The positions in s, from k on, of the calls that are saves.
RECURSIVE SavesFrom(_)
SavesFrom(k) ==
    IF k > Len(ops)
    THEN <<>>
    ELSE (IF ops[k] = "save" THEN <<k>> ELSE <<>>) \o SavesFrom(k + 1)

\* C7 as stated: on a bound context the continuation queue is as long as the
\* request queue, and the continuation at position i is that of request i.
C7_QueuesMatch ==
    id # NoId =>
        /\ Len(requestCallbacks_) = Len(requests_)
        /\ \A i \in DOMAIN requestCallbacks_ : requestCallbacks_[i].op = i

\* C7 amended: on a bound context the continuation queue holds exactly the
\* continuations of the queued saves, in the order of the saves; a queued
\* delete has a request and no continuation, so the queues are equally long
\* only while no delete is queued.
C7_CallbacksOfSaves ==
    id # NoId =>
        /\ [k \in DOMAIN requestCallbacks_ |-> requestCallbacks_[k].op] = SavesFrom(1)
        /\ \A k \in DOMAIN requestCallbacks_ :
              /\ "insert_auto_id" \in DOMAIN requests_[requestCallbacks_[k].op].mutation
              /\ Len(requestCallbacks_[k].insertIndexes)
                   = Len(requests_[requestCallbacks_[k].op].mutation.insert_auto_id)
        /\ Len(requestCallbacks_) = Len(requests_) <=> "delete" \notin Range(ops)

\* C7 witness: a delete and then a save are queued; the only continuation is
\* that of the second request.
C7_Witness ==
    /\ id # NoId
    /\ ops = <<"delete", "save">>
    /\ Len(requests_) = 2
    /\ Len(requestCallbacks_) = 1
    /\ requestCallbacks_[1].op = 2

\* C8 as stated: the entity descriptors and their data are as the caller
\* built them, and a key object differs from what the caller built only if
\* it was incomplete.
C8_OnlyKeyPaths ==
    /\ entityObjs = given.entityObjs
    /\ \A k \in DOMAIN keyObjs :
          keyObjs[k] # given.keyObjs[k] => ~isKeyComplete(given.keyObjs[k])

\* C9: an onCommit invoked with an error, or with no response, invokes the
\* caller's continuation with that error (with null when there is none) and
\* nothing else, and writes to no key object.
C9_FailedCommit ==
    [][(/\ Len(commits') = Len(commits) + 1
        /\ \/ commits'[Len(commits')].err # NoErr
           \/ commits'[Len(commits')].resp = Undefined)
          => /\ keyObjs' = keyObjs
             /\ calls' = Append(calls, [op |-> commits'[Len(commits')].op,
                                        err |-> commits'[Len(commits')].err,
                                        val |-> Undefined,
                                        by |-> commits'[Len(commits')].by])]_vars

\* C9 witness: an onCommit was invoked with no error and no response, and the
\* caller got a void success, its keys still incomplete.
C9_Witness ==
    \E n \in DOMAIN commits :
        /\ commits[n].err = NoErr
        /\ commits[n].resp = Undefined
        /\ calls = <<[op |-> commits[n].op, err |-> NoErr, val |-> Undefined, by |-> 0]>>
        /\ keyObjs = given.keyObjs
        /\ \E k \in DOMAIN keyObjs : ~isKeyComplete(keyObjs[k])

\* C9 witness of a failed commit: the dispatch of a save with an incomplete
\* key failed, and the caller got the error.
C9_WitnessError ==
    \E n \in DOMAIN commits :
        /\ commits[n].err # NoErr
        /\ commits[n].by > 0
        /\ calls = <<[op |-> 1, err |-> commits[n].err, val |-> Undefined,
                      by |-> commits[n].by]>>
        /\ \E k \in DOMAIN keyObjs : ~isKeyComplete(keyObjs[k])


\* ---------------------------------------------------- claims about runQuery
\* The items the stream has emitted, in order.
Items == SelectSeq(stream.out, LAMBDA e : e.ev = "data")

\* The error events of the stream.
StreamErrors == SelectSeq(stream.out, LAMBDA e : e.ev = "error")

\* The entities the store has for the query: those after its offset.
Available == IF total > q.offsetVal THEN total - q.offsetVal ELSE 0

Min(a, b) == IF a < b THEN a ELSE b

\* No dispatch has failed: no request emitted 'error' and every response
\* so far has status 200.
NoFailure ==
    /\ \A i \in DOMAIN reqs : ~reqs[i].erred /\ reqs[i].status \in {0, 200}
    /\ StreamErrors = <<>>

\* A stream of a query with a limit, ended without a failure, has emitted
\* min(limit, available) items.
C10_EmitsMin ==
    (stream.mode = "stream" /\ q.limitVal >= 0 /\ stream.ended /\ NoFailure)
        => Len(Items) = Min(q.limitVal, Available)

\* Once the stream of a query with a limit has emitted that many items, no
\* step dispatches a further page.
C10_NoFurtherPage ==
    [][(stream.mode = "stream" /\ q.limitVal >= 0 /\ reqs # <<>>
        /\ Len(Items) >= q.limitVal) => Len(reqs') = Len(reqs)]_vars

\* C10: stream-mode runQuery with a client-side limit L emits exactly
\* min(L, entities the store has for the query) items, across however many
\* pages the store splits them into, and dispatches no further page once L
\* items have been emitted. Violated: a page that carries entities but no
\* end cursor ends the stream before any of its entities is emitted.
C10_LimitHonoured == []C10_EmitsMin /\ C10_NoFurtherPage


\* The deliveries to the callback of a page-mode runQuery that carry no
\* error.
PageSuccesses == {n \in DOMAIN calls : calls[n].err = NoErr}

\* The batch the store sent in answer to dispatch i, as it was on the wire.
BatchOf(i) == (reqs[i].buffer \o reqs[i].rest)[1].val

\* C11: page-mode runQuery dispatches 'runQuery' exactly once per call
\* whatever cursor comes back, and on success delivers the decoded entities
\* of the batch with its end cursor in base64, the empty string when the
\* response carries no end cursor.
C11_PageMode ==
    stream.mode = "page" =>
        /\ Len(reqs) = 1
        /\ reqs[1].method = "runQuery"
        /\ \A n \in PageSuccesses :
              /\ calls[n].val.v = [j \in DOMAIN BatchOf(calls[n].by).entity_result |->
                                     formatEntity(BatchOf(calls[n].by).entity_result[j])]
              /\ calls[n].val.cursor =
                    IF BatchOf(calls[n].by).end_cursor = <<>> THEN <<>>
                    ELSE <<[base64 |-> BatchOf(calls[n].by).end_cursor[1].position]>>

\* A page delivered with entities and the empty cursor.
C11_Witness ==
    /\ stream.mode = "page"
    /\ \E n \in PageSuccesses : calls[n].val.cursor = <<>> /\ calls[n].val.v # <<>>

\* A page delivered with entities and the cursor the store sent.
C11_WitnessCursor ==
    /\ stream.mode = "page"
    /\ \E n \in PageSuccesses : calls[n].val.cursor # <<>> /\ calls[n].val.v # <<>>


\* The dispatches that start a chain of pages, and those issued from the
\* completion of dispatch i.
ChainHeads == {i \in DOMAIN reqs : reqs[i].parent = 0}
PagesAfter(i) == {j \in DOMAIN reqs : reqs[j].parent = i}

\* C12: stream-mode runQuery dispatches nothing before the first 'reading'
\* of a consumer, and however many times 'reading' is signalled there is one
\* chain of page requests: one first page, and one next page at most after
\* each page.
C12_LazyStart ==
    stream.mode = "stream" =>
        /\ stream.readings = 0 => reqs = <<>>
        /\ Cardinality(ChainHeads) <= 1
        /\ \A i \in DOMAIN reqs :
              reqs[i].method = "runQuery" /\ Cardinality(PagesAfter(i)) <= 1

\* The consumer has signalled 'reading' more than once and a second page
\* has been requested.
C12_Witness ==
    /\ stream.mode = "stream"
    /\ stream.readings >= 2
    /\ Len(reqs) >= 2


\* A dispatch that is outstanding: issued and its response not yet ended.
Outstanding(i) == reqs[i].phase \in {"auth", "open", "resp"}

\* The entities of the pages answered so far, in page order and in batch
\* order within each page.
RECURSIVE PagesUpTo(_)
PagesUpTo(i) ==
    IF i = 0 THEN <<>>
    ELSE PagesUpTo(i - 1) \o
         (IF reqs[i].status = 200
          THEN [j \in DOMAIN BatchOf(i).entity_result |->
                  formatEntity(BatchOf(i).entity_result[j])]
          ELSE <<>>)

IsPrefix(s, t) == Len(s) <= Len(t) /\ s = SubSeq(t, 1, Len(s))

\* C13: in stream mode at most one page request is outstanding at any
\* time, page k+1 is dispatched from the completion of page k, which has
\* ended and was decoded, and the items emitted are the entities of the
\* pages in page order and in batch order within a page.
C13_OnePageAtATime ==
    stream.mode = "stream" =>
        /\ Cardinality({i \in DOMAIN reqs : Outstanding(i)}) <= 1
        /\ \A i \in DOMAIN reqs :
              i > 1 => /\ reqs[i].parent = i - 1
                       /\ ~Outstanding(i - 1)
                       /\ reqs[i - 1].decoded # <<>>
        /\ IsPrefix([j \in DOMAIN Items |-> Items[j].val], PagesUpTo(Len(reqs)))

\* Items of two pages have been emitted, the first page having held one.
C13_Witness ==
    /\ stream.mode = "stream"
    /\ Len(reqs) >= 2
    /\ Len(BatchOf(1).entity_result) = 1
    /\ reqs[2].status = 200
    /\ Len(BatchOf(2).entity_result) >= 2
    /\ Len(Items) >= 3


\* A dispatch has failed: a continuation has been invoked with an error.
DispatchFailed == \E i \in DOMAIN reqs : \E k \in DOMAIN reqs[i].cbs : reqs[i].cbs[k] # NoErr

\* The stream after a dispatch error: one error event, the stream ended,
\* and no item after the error event.
ErrorThenEnd ==
    /\ Len(StreamErrors) = 1
    /\ stream.ended
    /\ \A j, k \in DOMAIN stream.out :
          (stream.out[j].ev = "error" /\ j < k) => stream.out[k].ev = "end"

\* C14: a dispatch error during stream-mode runQuery is delivered as one
\* error event on the stream, after which the stream is ended: no further
\* item is emitted and no further page is requested, and the items of
\* earlier pages stay emitted. In page mode the error is delivered to the
\* continuation with no entities. Violated: after the request has emitted
\* 'error' the response still ends and the continuation runs again.
C14_ErrorEndsStream ==
    /\ [](stream.mode = "stream" /\ DispatchFailed => ErrorThenEnd)
    /\ [](stream.mode = "page" => \A n \in DOMAIN calls :
                                    calls[n].err # NoErr => calls[n].val = Undefined)
    /\ [][(stream.mode = "stream" /\ DispatchFailed)
            => (Len(reqs') = Len(reqs) /\ Items' = Items)]_vars
    /\ [][IsPrefix(Items, Items')]_vars


\* ------------------------------------------------- claims about allocateIds
\* The keys the store returned to dispatch i, in the order of its response.
ReturnedKeys(i) ==
    [j \in DOMAIN (reqs[i].buffer \o reqs[i].rest) |->
       [path |-> (reqs[i].buffer \o reqs[i].rest)[j].val.path_element]]

\* C15: allocateIds with a complete key fails synchronously: nothing is
\* dispatched and the continuation is never invoked. With an incomplete key
\* and n it dispatches one 'allocateIds' request that carries n copies of
\* the wire form of the key, and a success delivers the keys the store
\* returned in the order it returned them (what had arrived of them when
\* the connection failed before the response ended).
C15_AllocateIds ==
    \A c \in DOMAIN ops :
        IF isKeyComplete(keyObjs[1])
        THEN ops[c].threw /\ reqs = <<>> /\ calls = <<>>
        ELSE /\ ~ops[c].threw
             /\ Len(reqs) = 1
             /\ reqs[1].method = "allocateIds"
             /\ Len(reqs[1].body.key) = ops[c].n
             /\ \A j \in DOMAIN reqs[1].body.key :
                   reqs[1].body.key[j] = [path_element |-> keyObjs[1].path]
             /\ \A d \in DOMAIN calls :
                   calls[d].err = NoErr =>
                       /\ IsPrefix(calls[d].val.v, ReturnedKeys(1))
                       /\ ~reqs[1].erred => calls[d].val.v = ReturnedKeys(1)

\* Three keys asked for and delivered, in an order that is not ascending.
C15_Witness ==
    /\ ops # <<>>
    /\ ops[1].n = 3
    /\ \E d \in DOMAIN calls :
          /\ calls[d].err = NoErr
          /\ Len(calls[d].val.v) = 3
          /\ calls[d].val.v[1].path[2] > calls[d].val.v[2].path[2]

\* A complete key was given and the call threw.
C15_WitnessComplete == ops # <<>> /\ ops[1].threw


\* ---------------------------------------------- claims about the dispatcher
\* The transaction id a lookup body carries under read_options, if any.
ReadTransaction(body) ==
    IF "read_options" \in DOMAIN body
    THEN IF "transaction" \in DOMAIN body.read_options
         THEN <<body.read_options.transaction>> ELSE <<>>
    ELSE <<>>

\* C16: a 'commit' body is framed with mode TRANSACTIONAL and the
\* transaction id when the context has a transaction id, and with mode
\* NON_TRANSACTIONAL and no transaction id otherwise; a 'lookup' body has
\* the transaction id under read_options exactly when the context has one,
\* the lookups re-issued for deferred keys included.
C16_Framing ==
    \A i \in DOMAIN reqs :
        /\ reqs[i].method = "commit" =>
              IF id # NoId
              THEN /\ reqs[i].body.mode = "TRANSACTIONAL"
                   /\ "transaction" \in DOMAIN reqs[i].body
                   /\ reqs[i].body.transaction = id
              ELSE /\ reqs[i].body.mode = "NON_TRANSACTIONAL"
                   /\ "transaction" \notin DOMAIN reqs[i].body
        /\ reqs[i].method = "lookup" =>
              ReadTransaction(reqs[i].body) = IF id # NoId THEN <<id>> ELSE <<>>

\* A lookup re-issued for deferred keys on a context bound to a transaction.
C16_Witness ==
    /\ id # NoId
    /\ Len(reqs) >= 2
    /\ reqs[2].method = "lookup"
    /\ ReadTransaction(reqs[2].body) = <<id>>

\* A commit dispatched on a context bound to a transaction.
C16_WitnessCommit ==
    /\ id # NoId
    /\ reqs # <<>>
    /\ reqs[1].method = "commit"
    /\ reqs[1].phase = "ended"


\* The chunk delivered to dispatch i in a step: what has left the part of
\* the body that is still to arrive.
Delivered(i) == SubSeq(reqs[i].rest, 1, Len(reqs[i].rest) - Len(reqs'[i].rest))

\* A response that was decoded had ended, had passed the status check, and
\* was decoded from the buffer; and the buffer changes only while the
\* response is arriving, by the chunk delivered being put at its end.
C17_DecodeWholeBody ==
    /\ [](\A i \in DOMAIN reqs :
            reqs[i].decoded # <<>> =>
                /\ reqs[i].phase \in {"ended", "closed"}
                /\ reqs[i].status >= 200 /\ reqs[i].status <= 299
                /\ reqs[i].decoded[1] = decode(reqs[i].method, reqs[i].buffer))
    /\ [][\A i \in DOMAIN reqs :
            reqs'[i].buffer # reqs[i].buffer =>
                /\ reqs[i].phase = "resp" /\ reqs'[i].phase = "resp"
                /\ reqs'[i].buffer = reqs[i].buffer \o Delivered(i)]_vars

\* A step in which the response of a dispatch ends, and with it the
\* attempt to decode it when its status is a success.
Ends(i) == reqs[i].phase = "resp" /\ reqs'[i].phase = "ended"

\* No decode is attempted for a dispatch whose authorization or transport
\* has failed.
C17_NoDecodeAfterFailure ==
    [][\A i \in DOMAIN reqs :
          (Ends(i) /\ handleResp(reqs[i].status) = NoErr) =>
              \A k \in DOMAIN reqs[i].cbs : reqs[i].cbs[k] = NoErr]_vars

\* C17: for every dispatch the response is decoded only after the transport
\* has signalled the end of the body, on the concatenation of all delivered
\* chunks in arrival order, and only if the status check reported no error;
\* an authorization or transport failure is passed to the continuation and
\* no decode is attempted. Violated: a request that emitted 'error' during
\* the response still sees the response end, and what had arrived is
\* decoded.
C17_DecodeDiscipline == C17_DecodeWholeBody /\ C17_NoDecodeAfterFailure


\* ------------------------------------------------ claims about save's batches
\* The positions of the input list targets, in ascending order, whose
\* entity has a complete key (complete = TRUE) or an incomplete one.
PositionsOf(targets, complete) ==
    SelectSeq([k \in DOMAIN targets |-> k],
              LAMBDA k : isKeyComplete(keyObjs[entityObjs[targets[k]].key]) = complete)

\* The batch holds, in order, one wire entity for each position of the
\* list positions, with the wire key of the entity at that position.
BatchIs(batch, targets, positions) ==
    /\ Len(batch) = Len(positions)
    /\ \A j \in DOMAIN batch :
          batch[j].key = [path_element |-> keyObjs[entityObjs[targets[positions[j]]].key].path]

\* The request and the continuation a save step has made: queued on a
\* bound context, dispatched on an unbound one.
SavedRequest == IF id # NoId THEN requests_'[Len(requests_')] ELSE reqs'[Len(reqs')].body
SavedCallback ==
    IF id # NoId THEN requestCallbacks_'[Len(requestCallbacks_')]
    ELSE reqs'[Len(reqs')].callback

\* C18: save partitions its input: every entity with a complete key is once
\* in the upsert batch and every entity with an incomplete key once in the
\* insert_auto_id batch, each batch in input order, and the recorded insert
\* indexes are the input positions of the incomplete-key entities in
\* ascending order.
C18_SavePartition ==
    [][ops' = Append(ops, "save") =>
          /\ BatchIs(SavedRequest.mutation.upsert, SavedCallback.entities,
                     PositionsOf(SavedCallback.entities, TRUE))
          /\ BatchIs(SavedRequest.mutation.insert_auto_id, SavedCallback.entities,
                     PositionsOf(SavedCallback.entities, FALSE))
          /\ SavedCallback.insertIndexes = PositionsOf(SavedCallback.entities, FALSE)]_vars

\* A save of three entities of which the second alone has an incomplete
\* key has been dispatched.
C18_Witness ==
    /\ reqs # <<>>
    /\ reqs[1].callback.kind = "onCommit"
    /\ reqs[1].callback.insertIndexes = <<2>>
    /\ Len(reqs[1].body.mutation.upsert) = 2
    /\ Len(reqs[1].body.mutation.insert_auto_id) = 1


\* ------------------------------------------------ claims about the pages
\* The wire query of the page that follows a page whose batch is batch: the
\* limit of the original query, no offset, and the end cursor of the batch
\* in base64 as start cursor.
QueryAfter(batch) ==
    [limit |-> IF q.limitVal > 0 THEN <<q.limitVal>> ELSE <<>>,
     offset |-> <<>>,
     start_cursor |-> <<[base64 |-> batch.end_cursor[1].position]>>]

\* Every page request after the first has offset zero and the cursor of
\* the page before it.
PagesFollowCursors ==
    stream.mode = "stream" =>
        \A i \in DOMAIN reqs :
            i > 1 => /\ BatchOf(i - 1).end_cursor # <<>>
                     /\ reqs[i].body.query = QueryAfter(BatchOf(i - 1))

\* A step in which page i completes and its response is decoded.
Completes(i) == Ends(i) /\ reqs'[i].decoded # <<>>

\* C19: in stream mode, whenever a page completes with a cursor, a
\* non-empty batch and an unexhausted budget, the next request is dispatched
\* with the original query restarted at the cursor of that page and offset
\* zero; every page request after the first has offset zero and the cursor
\* of the page before it.
C19_NextPage ==
    /\ []PagesFollowCursors
    /\ [][\A i \in DOMAIN reqs :
            (stream.mode = "stream" /\ Completes(i)
               /\ BatchOf(i).end_cursor # <<>> /\ BatchOf(i).entity_result # <<>>
               /\ stream'.resultsToSend # 0)
            => /\ Len(reqs') = Len(reqs) + 1
               /\ reqs'[Len(reqs')].body.query = QueryAfter(BatchOf(i))]_vars

\* A second page has been requested for a query that had an offset.
C19_Witness ==
    /\ stream.mode = "stream"
    /\ q.offsetVal > 0
    /\ Len(reqs) >= 2
    /\ reqs[1].body.query.offset # <<>>
    /\ reqs[2].body.query.start_cursor # <<>>


\* A page that completes with no end cursor or with an empty batch ends the
\* stream, adds no error event and requests no further page.
EndsCleanly ==
    [][\A i \in DOMAIN reqs :
          (stream.mode = "stream" /\ Completes(i)
             /\ (BatchOf(i).end_cursor = <<>> \/ BatchOf(i).entity_result = <<>>))
          => /\ stream'.ended
             /\ Len(SelectSeq(stream'.out, LAMBDA e : e.ev = "error")) = Len(StreamErrors)
             /\ Len(reqs') = Len(reqs)]_vars

\* Once the stream has ended no item is emitted and no request dispatched.
NothingAfterEnd ==
    [][(stream.mode = "stream" /\ stream.ended)
          => (Len(SelectSeq(stream'.out, LAMBDA e : e.ev = "data")) = Len(Items)
              /\ Len(reqs') = Len(reqs))]_vars

\* C20: in stream mode a page whose response has no end cursor or an empty
\* batch ends the stream cleanly and no further page is requested; once the
\* stream has been ended for any reason no item is emitted and no request
\* is dispatched for it afterwards. Violated: a stream ended by the 'error'
\* of a request requests the next page when the response of that request
\* ends.
C20_EndIsFinal == EndsCleanly /\ NothingAfterEnd


\* ------------------------------------------------------ claims about delete
\* A step in which the caller calls delete, as call number Len(ops) + 1.
Deletes == ops' = Append(ops, "delete")

\* The request a delete step has made is a delete mutation of wire keys.
IsDeleteRequest(req) ==
    /\ DOMAIN req.mutation = {"delete"}
    /\ \A j \in DOMAIN req.mutation.delete :
          \E k \in DOMAIN keyObjs : req.mutation.delete[j] = [path_element |-> keyObjs[k].path]

\* A step in which the continuation of a dispatched delete is invoked.
DeleteCompletes ==
    \E i \in DOMAIN reqs :
        /\ reqs[i].callback.kind = "callback"
        /\ Len(reqs'[i].cbs) > Len(reqs[i].cbs)

\* C21: delete on a context bound to a transaction appends its request to
\* the pending-request queue, leaves the queue of continuations as it is,
\* and the caller's continuation is never invoked from this layer; delete
\* on an unbound context passes the caller's continuation to the commit
\* dispatch, and its completion reconciles no key.
C21_DeleteQueues ==
    /\ [][Deletes =>
            IF id # NoId
            THEN /\ Len(requests_') = Len(requests_) + 1
                 /\ SubSeq(requests_', 1, Len(requests_)) = requests_
                 /\ IsDeleteRequest(requests_'[Len(requests_')])
                 /\ requestCallbacks_' = requestCallbacks_
                 /\ reqs' = reqs
                 /\ calls' = calls
            ELSE /\ Len(reqs') = Len(reqs) + 1
                 /\ reqs'[Len(reqs')].method = "commit"
                 /\ reqs'[Len(reqs')].callback = [kind |-> "callback", op |-> Len(ops) + 1]
                 /\ IsDeleteRequest([mutation |-> reqs'[Len(reqs')].body.mutation])
                 /\ requests_' = requests_
                 /\ requestCallbacks_' = requestCallbacks_
                 /\ calls' = calls]_vars
    /\ [](\A n \in DOMAIN calls : ops[calls[n].op] = "delete" => id = NoId)
    /\ [][DeleteCompletes =>
            /\ keyObjs' = keyObjs
            /\ Len(calls') = Len(calls) + 1
            /\ ops[calls'[Len(calls')].op] = "delete"]_vars

\* A delete is queued on a bound context after a save: two requests wait,
\* with the one continuation of the save.
C21_Witness ==
    /\ id # NoId
    /\ ops = <<"save", "delete">>
    /\ Len(requests_) = 2
    /\ Len(requestCallbacks_) = 1

\* The continuation of a delete dispatched on an unbound context has been
\* invoked.
C21_WitnessUnbound ==
    /\ id = NoId
    /\ \E n \in DOMAIN calls : ops[calls[n].op] = "delete" /\ calls[n].err = NoErr


\* ----------------------------------------------- claims about a single get
\* C22: a get called with a single key dispatches one lookup, also when the
\* response reports the key as deferred: the key is not requested again and
\* the continuation receives no entity for it.
C22_SingleNeverReissued ==
    CalledWithSingle =>
        /\ Len(reqs) = 1
        /\ reqs[1].method = "lookup"
        /\ Len(reqs[1].body.key) = 1
        /\ \A n \in Successes :
              Resp(1).deferred # <<>> => calls[n].val = Undefined

\* A single key was reported deferred and the continuation has been
\* invoked with no error and no entity.
C22_Witness ==
    /\ CalledWithSingle
    /\ reqs[1].decoded # <<>>
    /\ Resp(1).deferred # <<>>
    /\ \E n \in Successes : calls[n].val = Undefined


\* ------------------------------------------- claims about the continuation
\* C23: every dispatch invokes its completion continuation at most once,
\* under every interleaving of the events of the transport: authorization
\* failure, 'error' of the request, chunks and 'end' of the response.
\* Violated: 'error' and 'end' each invoke the continuation, whichever
\* comes first.
C23_AtMostOnce == \A i \in DOMAIN reqs : Len(reqs[i].cbs) <= 1


\* ---------------------------------------------------- claims about onCommit
\* The invocations of the commit continuation of call op, and the
\* deliveries to the caller's continuation of call op.
CommitsOf(op) == {n \in DOMAIN commits : commits[n].op = op}
CallsOf(op) == {n \in DOMAIN calls : calls[n].op = op}

\* The continuations save has made: those dispatched and those queued.
SaveCallbacks ==
    {reqs[i].callback : i \in {j \in DOMAIN reqs : reqs[j].callback.kind = "onCommit"}}
        \cup Range(requestCallbacks_)

\* The key objects at the insert indexes a save has recorded.
RecordedKeys ==
    UNION {{entityObjs[cb.entities[cb.insertIndexes[j]]].key : j \in DOMAIN cb.insertIndexes}
             : cb \in SaveCallbacks}

\* C24: save's commit continuation invokes the caller's continuation once
\* for every commit outcome, and writes a path only onto keys at recorded
\* insert indexes, whether the generated-key list of the response is
\* shorter than, equal to or longer than the list of incomplete-key
\* entities, and when the response has no mutation result. Violated: with
\* no mutation result, and with a longer list, onCommit throws before it
\* has called the caller's continuation.
C24_CommitAnswersOnce ==
    /\ \A op \in DOMAIN ops :
          ops[op] = "save" => Cardinality(CallsOf(op)) = Cardinality(CommitsOf(op))
    /\ \A k \in DOMAIN keyObjs :
          keyObjs[k] # given.keyObjs[k] => k \in RecordedKeys


\* ------------------------------------------ claims about get's termination
\* A dispatch of the get has failed: its authorization, its transport, the
\* status of its response, or a body cut short.
GetFailed ==
    \E i \in DOMAIN reqs :
        \/ reqs[i].erred
        \/ reqs[i].status \notin {0, 200}
        \/ \E k \in DOMAIN reqs[i].cbs : reqs[i].cbs[k] # NoErr

\* The rounds in which the store has deferred keys: the responses decoded
\* that list deferred keys.
DeferredRounds == {i \in DOMAIN reqs : reqs[i].decoded # <<>> /\ Resp(i).deferred # <<>>}

\* The caller's continuation has been invoked, once, after one lookup more
\* than the store deferred rounds.
GetDone ==
    /\ Len(calls) = 1
    /\ calls[1].err = NoErr
    /\ Len(reqs) = Cardinality(DeferredRounds) + 1

\* Each round after the first requests the keys the response before it
\* deferred, and is dispatched once that response is decoded.
RoundsFollowDeferred ==
    \A i \in DOMAIN reqs :
        i > 1 => /\ reqs[i].parent = i - 1
                 /\ reqs[i - 1].decoded # <<>>
                 /\ reqs[i].body.key = Resp(i - 1).deferred

\* C25: when every dispatch completes and the store defers keys in
\* finitely many rounds r, a get called with an array eventually invokes
\* the caller's continuation, once, after r + 1 lookup dispatches, each
\* round requesting the keys the response before it deferred.
C25_GetTerminates ==
    /\ [](CalledWithArray /\ ~GetFailed =>
            /\ Len(calls) <= 1
            /\ calls # <<>> => GetDone
            /\ RoundsFollowDeferred)
    /\ (CalledWithArray ~> (GetFailed \/ GetDone))

\* The continuation has been invoked once, after two rounds of deferral
\* and three lookups.
C25_Witness ==
    /\ CalledWithArray
    /\ ~GetFailed
    /\ GetDone
    /\ Cardinality(DeferredRounds) = 2
    /\ Len(reqs) = 3

====
